---- MODULE Spec2Model ----
(***************************************************************************)
(* Document access control, auto-versioning and mention-driven sharing of  *)
(* the knowledge-base server: the Document model (models/Document.js), the *)
(* documents router and the user-deletion route, over a MongoDB store      *)
(* reached through mongoose documents (load, modify in memory, save).      *)
(***************************************************************************)
EXTENDS Integers, Sequences, FiniteSets, TLC

(***************************************************************************)
(* Bounds of the model.                                                    *)
(***************************************************************************)
\* number of successful store mutations a behaviour may perform; it is also
\* the range of the logical clock that stands for Date.now()
MaxOps == 3
\* number of documents that may be created
MaxDocs == 1

(***************************************************************************)
(* Users.  The identity store holds three accounts, inserted in id order.  *)
(***************************************************************************)
UserIds == {1, 2, 3}

UserName(u) ==
  CASE u = 1 -> <<"a", "l", "i", "c", "e">>
    [] u = 2 -> <<"b", "o", "b">>
    [] OTHER -> <<"r", "o", "o", "t">>

UserEmail(u) ==
  CASE u = 1 -> <<"a", "l", "@", "x">>
    [] u = 2 -> <<"b", "o", "@", "x">>
    [] OTHER -> <<"r", "t", "@", "x">>

UserRole(u) == IF u = 3 THEN "admin" ELSE "user"

UnknownEmail == <<"n", "o", "@", "x">>

(***************************************************************************)
(* Strings are sequences of one-character strings.                         *)
(***************************************************************************)
\* \w of the mention regex, restricted to the characters the model uses
WordChars ==
  {"a", "b", "c", "e", "i", "l", "o", "r", "t", "x", "z", "d", "h", "n",
   "A", "L", "B", "0", "1", "2", "_"}

\* case folding of the $options: 'i' match
Lower(c) ==
  CASE c = "A" -> "a"
    [] c = "L" -> "l"
    [] c = "B" -> "b"
    [] OTHER -> c

\* the regex <tok> (word characters only) matches somewhere in str, ignoring case
RegexMatchI(tok, str) ==
  \E k \in 0..(Len(str) - Len(tok)) :
    \A i \in 1..Len(tok) : Lower(str[k + i]) = Lower(tok[i])

Min(S) == CHOOSE x \in S : \A y \in S : x <= y

\* User.findOne({$or: [{name: {$regex: tok, $options: 'i'}}, {email: ...}]}):
\* the first matching account in insertion order, 0 when there is none
FindUserByMention(existing, tok) ==
  LET hits == {u \in existing :
                 RegexMatchI(tok, UserName(u)) \/ RegexMatchI(tok, UserEmail(u))}
  IN IF hits = {} THEN 0 ELSE Min(hits)

\* User.findOne({ email }): exact match
FindUserByEmail(existing, email) ==
  LET hits == {u \in existing : UserEmail(u) = email}
  IN IF hits = {} THEN 0 ELSE Min(hits)

\* end of the run of word characters that starts at position i of s
RECURSIVE WordEnd(_, _)
WordEnd(s, i) ==
  IF i + 1 <= Len(s) /\ s[i + 1] \in WordChars THEN WordEnd(s, i + 1) ELSE i

\* the loop  while ((match = /@(\w+)/g.exec(content)) !== null): the captured
\* tokens, in order of appearance, scanning on from the end of each match
RECURSIVE MentionTokens(_, _)
MentionTokens(s, i) ==
  IF i > Len(s) THEN <<>>
  ELSE IF s[i] = "@" /\ i + 1 <= Len(s) /\ s[i + 1] \in WordChars
       THEN LET j == WordEnd(s, i + 1)
            IN <<SubSeq(s, i + 1, j)>> \o MentionTokens(s, j + 1)
       ELSE MentionTokens(s, i + 1)

\* the list `mentions` built by the loop: one id per token that resolves
RECURSIVE ResolveTokens(_, _)
ResolveTokens(existing, toks) ==
  IF toks = <<>> THEN <<>>
  ELSE LET u == FindUserByMention(existing, Head(toks))
       IN (IF u = 0 THEN <<>> ELSE <<u>>) \o ResolveTokens(existing, Tail(toks))

ExtractMentions(existing, content) ==
  ResolveTokens(existing, MentionTokens(content, 1))

(***************************************************************************)
(* Document model (models/Document.js).                                    *)
(***************************************************************************)
Levels == {"view", "edit", "admin"}

permissionLevels(l) ==
  CASE l = "view" -> 1
    [] l = "edit" -> 2
    [] OTHER -> 3

\* positions of the permission entries of a user
PermIdx(doc, userId) ==
  {i \in DOMAIN doc.permissions : doc.permissions[i].user = userId}

\* variant: the level comparison is strict
hasPermission_Strict(doc, userId, requiredPermission) ==
  IF doc.privacy = "public" /\ requiredPermission = "view" THEN TRUE
  ELSE IF doc.author = userId THEN TRUE
  ELSE IF PermIdx(doc, userId) = {} THEN FALSE
  ELSE permissionLevels(doc.permissions[Min(PermIdx(doc, userId))].permission)
         > permissionLevels(requiredPermission)

hasPermission(doc, userId, requiredPermission) ==
  IF doc.privacy = "public" /\ requiredPermission = "view" THEN TRUE
  ELSE IF doc.author = userId THEN TRUE
  ELSE IF PermIdx(doc, userId) = {} THEN FALSE
  ELSE permissionLevels(doc.permissions[Min(PermIdx(doc, userId))].permission)
         >= permissionLevels(requiredPermission)

\* variant: the collaborator id is pushed without the includes() test
addCollaborator_NoIncludes(doc, userId, permission, grantedBy, t) ==
  LET idx == PermIdx(doc, userId)
      perms ==
        IF idx # {}
        THEN [doc.permissions EXCEPT
                ![Min(idx)] = [@ EXCEPT !.permission = permission,
                                        !.grantedBy = grantedBy,
                                        !.grantedAt = t]]
        ELSE Append(doc.permissions,
                    [user |-> userId, permission |-> permission,
                     grantedBy |-> grantedBy, grantedAt |-> t])
  IN [doc EXCEPT !.permissions = perms,
                 !.collaborators = Append(doc.collaborators, userId)]

\* variant: a permission entry is pushed without looking for an existing one
addCollaborator_AlwaysPush(doc, userId, permission, grantedBy, t) ==
  [doc EXCEPT
     !.permissions = Append(@, [user |-> userId, permission |-> permission,
                                grantedBy |-> grantedBy, grantedAt |-> t]),
     !.collaborators =
        IF \E i \in DOMAIN doc.collaborators : doc.collaborators[i] = userId
        THEN @ ELSE Append(@, userId)]

addCollaborator(doc, userId, permission, grantedBy, t) ==
  LET idx == PermIdx(doc, userId)
      perms ==
        IF idx # {}
        THEN [doc.permissions EXCEPT
                ![Min(idx)] = [@ EXCEPT !.permission = permission,
                                        !.grantedBy = grantedBy,
                                        !.grantedAt = t]]
        ELSE Append(doc.permissions,
                    [user |-> userId, permission |-> permission,
                     grantedBy |-> grantedBy, grantedAt |-> t])
      collabs ==
        IF \E i \in DOMAIN doc.collaborators : doc.collaborators[i] = userId
        THEN doc.collaborators
        ELSE Append(doc.collaborators, userId)
  IN [doc EXCEPT !.permissions = perms, !.collaborators = collabs]

\* variant: only the permission entries are filtered
removeCollaborator_PermsOnly(doc, userId) ==
  [doc EXCEPT
     !.permissions = SelectSeq(doc.permissions, LAMBDA p : p.user # userId)]

removeCollaborator(doc, userId) ==
  [doc EXCEPT
     !.permissions = SelectSeq(doc.permissions, LAMBDA p : p.user # userId),
     !.collaborators = SelectSeq(doc.collaborators, LAMBDA c : c # userId)]

\* variant: the mention is pushed without looking for an existing one
addMention_Always(doc, userId, t) ==
  [doc EXCEPT !.mentions = Append(@, [user |-> userId, mentionedAt |-> t])]

\* variant: a repeated mention refreshes the timestamp
addMention_Refresh(doc, userId, t) ==
  IF \E i \in DOMAIN doc.mentions : doc.mentions[i].user = userId
  THEN [doc EXCEPT
          !.mentions = [i \in DOMAIN @ |->
                          IF @[i].user = userId
                          THEN [@[i] EXCEPT !.mentionedAt = t] ELSE @[i]]]
  ELSE [doc EXCEPT !.mentions = Append(@, [user |-> userId, mentionedAt |-> t])]

addMention(doc, userId, t) ==
  IF \E i \in DOMAIN doc.mentions : doc.mentions[i].user = userId
  THEN doc
  ELSE [doc EXCEPT !.mentions = Append(@, [user |-> userId, mentionedAt |-> t])]

\* what a document that was not loaded from the store is compared with
NewDocument == [isNew |-> TRUE]

\* variant: a path counts as modified on every save
isModified_Always(doc, orig, path) == TRUE

\* this.isModified(path): every path set on a new document counts as
\* modified; on a loaded one, a path whose value differs from the loaded one
isModified(doc, orig, path) ==
  IF orig = NewDocument THEN TRUE ELSE doc[path] # orig[path]

\* variant: the hook snapshots the fields as they were loaded
PreSave_Prior(doc, orig, t) ==
  IF isModified(doc, orig, "content") \/ isModified(doc, orig, "title")
  THEN LET src == IF orig = NewDocument THEN doc ELSE orig
           newVersion ==
             [content |-> src.content,
              title |-> src.title,
              versionNumber |-> doc.currentVersion + 1,
              createdBy |-> IF doc.lastModifiedBy # 0 THEN doc.lastModifiedBy
                            ELSE doc.author,
              createdAt |-> t]
       IN [doc EXCEPT !.versions = Append(@, newVersion),
                      !.currentVersion = newVersion.versionNumber]
  ELSE doc

\* variant: the hook pushes the entry and leaves currentVersion as it was
PreSave_NoBump(doc, orig, t) ==
  IF isModified(doc, orig, "content") \/ isModified(doc, orig, "title")
  THEN LET newVersion ==
             [content |-> doc.content,
              title |-> doc.title,
              versionNumber |-> doc.currentVersion + 1,
              createdBy |-> IF doc.lastModifiedBy # 0 THEN doc.lastModifiedBy
                            ELSE doc.author,
              createdAt |-> t]
       IN [doc EXCEPT !.versions = Append(@, newVersion)]
  ELSE doc

\* documentSchema.pre('save'); the hook reads the fields as they are when
\* save() is called, orig is the document as it was loaded
PreSave(doc, orig, t) ==
  IF isModified(doc, orig, "content") \/ isModified(doc, orig, "title")
  THEN LET newVersion ==
             [content |-> doc.content,
              title |-> doc.title,
              versionNumber |-> doc.currentVersion + 1,
              createdBy |-> IF doc.lastModifiedBy # 0 THEN doc.lastModifiedBy
                            ELSE doc.author,
              createdAt |-> t]
       IN [doc EXCEPT !.versions = Append(@, newVersion),
                      !.currentVersion = newVersion.versionNumber]
  ELSE doc

(***************************************************************************)
(* The store.  document.save() sends the changes made to the in-memory     *)
(* copy since it was loaded: $set for a changed field, $push for elements  *)
(* appended to an array, a positional $set for a changed field of an array *)
(* element, $set of the whole array when it was assigned or both appended  *)
(* to and changed in place.  The version key __v guards array positions:   *)
(* it is matched when an element or a whole array is set and incremented   *)
(* when an array is pushed to or set as a whole.                           *)
(***************************************************************************)
IsPrefix(old, new) ==
  Len(old) <= Len(new) /\ SubSeq(new, 1, Len(old)) = old

ArrayOp(old, new) ==
  IF new = old THEN "none"
  ELSE IF Len(new) > Len(old) /\ IsPrefix(old, new) THEN "push"
  ELSE IF Len(new) = Len(old) THEN "elem"
  ELSE "set"

\* the array stored after the operation derived from (old, new) is applied
\* to the array cur that is in the store now
ApplyArray(cur, old, new) ==
  CASE ArrayOp(old, new) = "none" -> cur
    [] ArrayOp(old, new) = "push" ->
         cur \o SubSeq(new, Len(old) + 1, Len(new))
    [] ArrayOp(old, new) = "elem" ->
         [i \in DOMAIN cur |->
            IF i \in DOMAIN new /\ new[i] # old[i]
            THEN [f \in DOMAIN cur[i] |->
                    IF new[i][f] # old[i][f] THEN new[i][f] ELSE cur[i][f]]
            ELSE cur[i]]
    [] OTHER -> new

\* tags is only ever assigned as a whole
TagsOp(old, new) == IF new = old THEN "none" ELSE "set"

SaveOps(loaded, mem) ==
  {ArrayOp(loaded.permissions, mem.permissions),
   ArrayOp(loaded.collaborators, mem.collaborators),
   ArrayOp(loaded.mentions, mem.mentions),
   ArrayOp(loaded.versions, mem.versions),
   TagsOp(loaded.tags, mem.tags)}

VersionWhere(loaded, mem) == SaveOps(loaded, mem) \cap {"elem", "set"} # {}

VersionInc(loaded, mem) == SaveOps(loaded, mem) \cap {"push", "set"} # {}

ScalarFields ==
  {"title", "content", "status", "privacy", "currentVersion",
   "lastModifiedBy", "isDeleted"}

\* the save is rejected (VersionError) when __v is matched and has moved
SaveOk(cur, loaded, mem) ==
  VersionWhere(loaded, mem) => cur.vkey = loaded.vkey

SaveApply(cur, loaded, mem) ==
  [f \in DOMAIN cur |->
     IF f \in ScalarFields THEN (IF mem[f] # loaded[f] THEN mem[f] ELSE cur[f])
     ELSE IF f = "tags" THEN (IF mem.tags # loaded.tags THEN mem.tags ELSE cur.tags)
     ELSE IF f = "vkey"
          THEN (IF VersionInc(loaded, mem) THEN cur.vkey + 1 ELSE cur.vkey)
     ELSE IF f = "author" THEN cur.author
     ELSE ApplyArray(cur[f], loaded[f], mem[f])]

\* await document.save() of a loaded document: the pre-save hook, then the
\* write; cur is the stored document at the time of the write
SaveDoc(cur, loaded, mem, t) ==
  LET m == PreSave(mem, loaded, t)
  IN IF SaveOk(cur, loaded, m)
     THEN [ok |-> TRUE, doc |-> SaveApply(cur, loaded, m)]
     ELSE [ok |-> FALSE, doc |-> cur]

\* Document.create(fields): schema defaults, then the pre-save hook of a new
\* document, for which every path that was set counts as modified
CreateDoc(fields, t) ==
  PreSave([title |-> fields.title,
           content |-> fields.content,
           author |-> fields.author,
           status |-> fields.status,
           privacy |-> fields.privacy,
           permissions |-> <<>>,
           versions |-> <<>>,
           currentVersion |-> 1,
           tags |-> fields.tags,
           mentions |-> <<>>,
           collaborators |-> <<>>,
           lastModifiedBy |-> fields.lastModifiedBy,
           isDeleted |-> FALSE,
           vkey |-> 0],
          NewDocument, t)

(***************************************************************************)
(* Request bodies.  A body lists the fields it carries in `has`; a field   *)
(* that is not carried is undefined in the handler.                        *)
(***************************************************************************)
ContentPlain == <<"h", "i">>
ContentTeam ==
  <<"@", "z", "e", "d", " ", "@", "a", "l", " ", "@", "A", "L", " ",
    "@", "b", "o", "b">>

Body(has, title, content, privacy, status, tags) ==
  [has |-> has, title |-> title, content |-> content, privacy |-> privacy,
   status |-> status, tags |-> tags]

CreateFields == {"title", "content", "privacy", "status"}

CreateBodies ==
  {Body(CreateFields, "T1", ContentPlain, "public", "draft", <<>>),
   Body(CreateFields \cup {"tags"}, "T1", ContentTeam, "private", "published", <<"t">>),
   Body(CreateFields, "T1", ContentPlain, "private", "archived", <<>>)}

UpdateBodies ==
  {Body({"content"}, "", ContentTeam, "", "", <<>>),
   Body({"title", "content"}, "T2", ContentPlain, "", "", <<>>),
   Body({"title"}, "T2", <<>>, "", "", <<>>),
   Body({"status", "privacy", "tags"}, "", <<>>, "public", "archived", <<"t">>),
   Body({"status"}, "", <<>>, "", "bogus", <<>>)}

\* variant: the validator accepts every status of the schema
CreateValid_AnyStatus(b) ==
  /\ "title" \in b.has /\ b.title # ""
  /\ "content" \in b.has /\ b.content # <<>>
  /\ "privacy" \in b.has /\ b.privacy \in {"public", "private"}
  /\ "status" \in b.has /\ b.status \in {"draft", "published", "archived"}

\* the express-validator chain of POST /api/documents
CreateValid(b) ==
  /\ "title" \in b.has /\ b.title # ""
  /\ "content" \in b.has /\ b.content # <<>>
  /\ "privacy" \in b.has /\ b.privacy \in {"public", "private"}
  /\ "status" \in b.has /\ b.status \in {"draft", "published"}

\* the express-validator chain of PUT /api/documents/:id
UpdateValid(b) ==
  /\ "title" \in b.has => b.title # ""
  /\ "content" \in b.has => b.content # <<>>
  /\ "privacy" \in b.has => b.privacy \in {"public", "private"}
  /\ "status" \in b.has => b.status \in {"draft", "published", "archived"}

(***************************************************************************)
(* State.                                                                  *)
(***************************************************************************)
VARIABLES
  users,     \* ids of the accounts in the identity store
  docs,      \* the documents collection: id -> stored document
  now,       \* the clock; it advances with every successful mutation
  last,      \* the last request that reached the store, and its response status
  hist,      \* per document: how many successful updates changed the content,
             \* and how many changed the title only
  inflight,  \* requests that have loaded a document and not yet saved it
  editor,    \* the DocumentEditor page opened at /documents/new
  auth       \* the accounts as the auth routes see them, the verification
             \* mails sent, the JWTs returned by login

vars == <<users, docs, now, last, hist, inflight, editor, auth>>

DocIds == 1..MaxDocs

Procs == {1, 2}

Idle == [st |-> "idle"]

\* no account registered, no mail sent, no JWT returned
AuthInit ==
  [accounts |-> [e \in {"eve@x", "dan@x"} |-> [registered |-> FALSE]],
   mailed |-> {}, jwts |-> {}, time |-> 0, issued |-> 0]

\* useState of DocumentEditor on mount: the empty form, no timer
EditorInit ==
  [mounted |-> TRUE, title |-> "", content |-> <<>>, timers |-> {},
   autoSaveTimeout |-> 0, cleanup |-> 0, handles |-> 0,
   autoSaveStatus |-> "saved"]

Response(op, code, actor, d) == [op |-> op, code |-> code]

Init ==
  /\ users = UserIds
  /\ docs = <<>>
  /\ now = 0
  /\ last = Response("none", 0, 0, 0)
  /\ hist = <<>>
  /\ inflight = [p \in Procs |-> Idle]
  /\ editor = EditorInit
  /\ auth = AuthInit

\* a request is served from start to end with no other request in between
Quiet == \A p \in Procs : inflight[p] = Idle

(***************************************************************************)
(* Handlers of the documents router, as changes to the in-memory document. *)
(***************************************************************************)
\* mentions.forEach(userId => document.addMention(userId))
RECURSIVE AddMentions(_, _, _)
AddMentions(doc, ms, t) ==
  IF ms = <<>> THEN doc
  ELSE AddMentions(addMention(doc, Head(ms), t), Tail(ms), t)

\* mentions.forEach(userId => document.addCollaborator(userId, 'view', req.user.id))
RECURSIVE AddViewers(_, _, _, _)
AddViewers(doc, ms, actor, t) ==
  IF ms = <<>> THEN doc
  ELSE AddViewers(addCollaborator(doc, Head(ms), "view", actor, t), Tail(ms), actor, t)

\* mentions.forEach(userId => { addMention(userId); addCollaborator(userId, 'view', ...) })
RECURSIVE AddMentionsAndViewers(_, _, _, _)
AddMentionsAndViewers(doc, ms, actor, t) ==
  IF ms = <<>> THEN doc
  ELSE AddMentionsAndViewers(
         addCollaborator(addMention(doc, Head(ms), t), Head(ms), "view", actor, t),
         Tail(ms), actor, t)

\* POST /api/documents after validation: Document.create, the mention
\* loops on the returned document, and the second save
CreateCreated(existing, actor, b, t) ==
  CreateDoc([title |-> b.title, content |-> b.content, author |-> actor,
             privacy |-> b.privacy, status |-> b.status,
             tags |-> IF "tags" \in b.has THEN b.tags ELSE <<>>,
             lastModifiedBy |-> actor], t)

CreateMem(existing, created, actor, b, t) ==
  LET ms == ExtractMentions(existing, b.content)
  IN AddViewers(AddMentions(created, ms, t), ms, actor, t)

\* variant: lastModifiedBy is assigned only with a title or a content
UpdateMem_ContentOnly(existing, doc, actor, b, t) ==
  LET d1 == IF "content" \in b.has
            THEN AddMentionsAndViewers(doc, ExtractMentions(existing, b.content),
                                       actor, t)
            ELSE doc
  IN [d1 EXCEPT
        !.title = IF "title" \in b.has THEN b.title ELSE @,
        !.content = IF "content" \in b.has THEN b.content ELSE @,
        !.privacy = IF "privacy" \in b.has THEN b.privacy ELSE @,
        !.status = IF "status" \in b.has THEN b.status ELSE @,
        !.tags = IF "tags" \in b.has THEN b.tags ELSE @,
        !.lastModifiedBy =
           IF "title" \in b.has \/ "content" \in b.has THEN actor ELSE @]

\* PUT /api/documents/:id after the permission check: the in-memory document
UpdateMem(existing, doc, actor, b, t) ==
  LET d1 == IF "content" \in b.has
            THEN AddMentionsAndViewers(doc, ExtractMentions(existing, b.content),
                                       actor, t)
            ELSE doc
  IN [d1 EXCEPT
        !.title = IF "title" \in b.has THEN b.title ELSE @,
        !.content = IF "content" \in b.has THEN b.content ELSE @,
        !.privacy = IF "privacy" \in b.has THEN b.privacy ELSE @,
        !.status = IF "status" \in b.has THEN b.status ELSE @,
        !.tags = IF "tags" \in b.has THEN b.tags ELSE @,
        !.lastModifiedBy = actor]

\* the check shared by delete, add collaborator and remove collaborator
IsAuthorOrAdmin(doc, actor) ==
  doc.author = actor \/ UserRole(actor) = "admin"

\* variant: only the lookup is tested
Missing_NoFlag(d) == d \notin DOMAIN docs

\* findById returns nothing, or the document is soft-deleted
Missing(d) == d \notin DOMAIN docs \/ docs[d].isDeleted

HistAfter(d, old, new) ==
  [hist EXCEPT
     ![d] = IF new.content # old.content THEN [@ EXCEPT !.edits = @ + 1]
            ELSE IF new.title # old.title THEN [@ EXCEPT !.titleOnly = @ + 1]
            ELSE @]

\* the clock advances when the save wrote something
Stored(op, code, actor, d, doc) ==
  /\ docs' = [docs EXCEPT ![d] = doc]
  /\ now' = IF doc = docs[d] THEN now ELSE now + 1
  /\ last' = Response(op, code, actor, d)
  /\ UNCHANGED <<users, inflight, editor, auth>>

(***************************************************************************)
(* Response status of each route for a request served now.  A request that *)
(* is answered by an early return (400, 403, 404) changes nothing.         *)
(***************************************************************************)
CreateStatus(actor, b) ==
  IF ~CreateValid(b) THEN 400 ELSE 201

\* variant: the permission check asks for view
UpdateStatus_View(actor, d, b) ==
  IF ~UpdateValid(b) THEN 400
  ELSE IF Missing(d) THEN 404
  ELSE IF ~hasPermission(docs[d], actor, "view") THEN 403
  ELSE 200

UpdateStatus(actor, d, b) ==
  IF ~UpdateValid(b) THEN 400
  ELSE IF Missing(d) THEN 404
  ELSE IF ~hasPermission(docs[d], actor, "edit") THEN 403
  ELSE 200

\* variant: a holder of document-level admin may delete
DeleteStatus_DocAdmin(actor, d) ==
  IF Missing(d) THEN 404
  ELSE IF ~IsAuthorOrAdmin(docs[d], actor)
          /\ ~hasPermission(docs[d], actor, "admin") THEN 403
  ELSE 200

DeleteStatus(actor, d) ==
  IF Missing(d) THEN 404
  ELSE IF ~IsAuthorOrAdmin(docs[d], actor) THEN 403
  ELSE 200

\* variant: a holder of document-level admin may share
AddCollaboratorStatus_DocAdmin(actor, d, email) ==
  IF Missing(d) THEN 404
  ELSE IF ~IsAuthorOrAdmin(docs[d], actor)
          /\ ~hasPermission(docs[d], actor, "admin") THEN 403
  ELSE IF FindUserByEmail(users, email) = 0 THEN 404
  ELSE 200

AddCollaboratorStatus(actor, d, email) ==
  IF Missing(d) THEN 404
  ELSE IF ~IsAuthorOrAdmin(docs[d], actor) THEN 403
  ELSE IF FindUserByEmail(users, email) = 0 THEN 404
  ELSE 200

RemoveCollaboratorStatus(actor, d) ==
  IF Missing(d) THEN 404
  ELSE IF ~IsAuthorOrAdmin(docs[d], actor) THEN 403
  ELSE 200

DeleteUserStatus(actor, u) ==
  IF UserRole(actor) # "admin" THEN 403
  ELSE IF u \notin users THEN 404
  ELSE IF u = actor THEN 400
  ELSE 200

(***************************************************************************)
(* GET /api/documents/:id.  The query populates author and                 *)
(* permissions.user before the handler calls hasPermission, so the method  *)
(* calls toString() on user documents instead of ids.                      *)
(***************************************************************************)
\* ObjectId.prototype.toString and String(req.user.id): the hex string
IdString(id) == [kind |-> "hex", of |-> id]

\* Document.prototype.toString of a populated user: the inspect() output
DocString(user) == [kind |-> "inspect", of |-> user._id]

\* populate(path, 'name email'): the id is replaced by the user document
PopulatedUser(id) == [_id |-> id, name |-> UserName(id), email |-> UserEmail(id)]

Populate(doc) ==
  [doc EXCEPT
     !.author = PopulatedUser(@),
     !.permissions = [i \in DOMAIN @ |-> [@[i] EXCEPT !.user = PopulatedUser(@)]]]

\* hasPermission on a document whose author and permissions.user are populated
hasPermissionOnPopulated(pdoc, userId, requiredPermission) ==
  IF pdoc.privacy = "public" /\ requiredPermission = "view" THEN TRUE
  ELSE IF DocString(pdoc.author) = IdString(userId) THEN TRUE
  ELSE LET idx == {i \in DOMAIN pdoc.permissions :
                     DocString(pdoc.permissions[i].user) = IdString(userId)}
       IN IF idx = {} THEN FALSE
          ELSE permissionLevels(pdoc.permissions[Min(idx)].permission)
                 >= permissionLevels(requiredPermission)

\* no identity: optionalAuth leaves req.user unset
Anonymous == 0

GetStatus(actor, d) ==
  IF Missing(d) THEN 404
  ELSE IF docs[d].privacy = "private"
       THEN IF actor = Anonymous THEN 401
            ELSE IF ~hasPermissionOnPopulated(Populate(docs[d]), actor, "view")
                 THEN 403
            ELSE 200
  ELSE 200

\* GET /api/documents/:id/versions
GetVersionsStatus(actor, d) ==
  IF Missing(d) THEN 404
  ELSE IF ~hasPermission(docs[d], actor, "view") THEN 403
  ELSE 200

(***************************************************************************)
(* Queries that return lists of documents, as the set of ids they select.  *)
(* `hits` is the set of documents the text index or the title regex        *)
(* matches for the query string.                                           *)
(***************************************************************************)
\* variant: the $or has no 'permissions.user' branch
VisibleTo_NoPerms(doc, actor) ==
  \/ doc.author = actor
  \/ doc.privacy = "public"

\* $or: [{author}, {privacy: 'public'}, {'permissions.user'}]
VisibleTo(doc, actor) ==
  \/ doc.author = actor
  \/ doc.privacy = "public"
  \/ PermIdx(doc, actor) # {}

\* GET /api/documents
ListDocuments(actor) ==
  {d \in DOMAIN docs : ~docs[d].isDeleted /\ VisibleTo(docs[d], actor)}

\* GET /api/search/documents and the documents part of GET /api/search
SearchDocuments(actor, hits) ==
  {d \in hits :
     /\ ~docs[d].isDeleted
     /\ IF actor # Anonymous THEN VisibleTo(docs[d], actor)
        ELSE docs[d].privacy = "public"}

\* GET /api/search/suggestions: same filter, on a title match
SearchSuggestions(actor, hits) == SearchDocuments(actor, hits)

\* values of the status and privacy query parameters; "" is an absent one
StatusFilters == {"", "draft", "published", "archived"}

PrivacyFilters == {"", "public", "private"}

\* GET /api/documents with its optional status and search filters
ListQuery(actor, status, hits) ==
  {d \in hits :
     /\ ~docs[d].isDeleted
     /\ VisibleTo(docs[d], actor)
     /\ status # "" => docs[d].status = status}

\* GET /api/search/documents with its optional status and privacy filters;
\* without req.user the privacy condition is replaced by 'public'
SearchQuery(actor, hits, status, privacy) ==
  {d \in hits :
     /\ ~docs[d].isDeleted
     /\ status # "" => docs[d].status = status
     /\ IF actor # Anonymous
        THEN /\ privacy # "" => docs[d].privacy = privacy
             /\ VisibleTo(docs[d], actor)
        ELSE docs[d].privacy = "public"}

\* GET /api/users/:id/documents
UserDocuments(actor, id) ==
  {d \in DOMAIN docs :
     /\ ~docs[d].isDeleted
     /\ docs[d].author = id
     /\ (id = actor \/ UserRole(actor) = "admin") \/ docs[d].privacy = "public"}

\* GET /api/users/:id/collaborations
UserCollaborations(actor, id) ==
  IF id # actor /\ UserRole(actor) # "admin" THEN {}
  ELSE {d \in DOMAIN docs : ~docs[d].isDeleted /\ PermIdx(docs[d], id) # {}}

(***************************************************************************)
(* Requests served one at a time.                                          *)
(***************************************************************************)
CreateDocument(actor, b) ==
  /\ Quiet
  /\ now < MaxOps
  /\ actor \in users
  /\ CreateStatus(actor, b) = 201
  /\ Len(docs) < MaxDocs
  /\ LET d == Len(docs) + 1
         created == CreateCreated(users, actor, b, now)
         mem == CreateMem(users, created, actor, b, now)
         saved == SaveDoc(created, created, mem, now)
     IN /\ docs' = Append(docs, saved.doc)
        /\ hist' = Append(hist, [edits |-> 0, titleOnly |-> 0])
        /\ last' = Response("create", 201, actor, d)
  /\ now' = now + 1
  /\ UNCHANGED <<users, inflight, editor, auth>>

UpdateDocument(actor, d, b) ==
  /\ Quiet
  /\ now < MaxOps
  /\ actor \in users
  /\ UpdateStatus(actor, d, b) = 200
  /\ LET mem == UpdateMem(users, docs[d], actor, b, now)
         saved == SaveDoc(docs[d], docs[d], mem, now)
     IN /\ Stored("update", 200, actor, d, saved.doc)
        /\ hist' = HistAfter(d, docs[d], saved.doc)

DeleteDocument(actor, d) ==
  /\ Quiet
  /\ now < MaxOps
  /\ actor \in users
  /\ DeleteStatus(actor, d) = 200
  /\ LET mem == [docs[d] EXCEPT !.isDeleted = TRUE]
     IN Stored("delete", 200, actor, d, SaveDoc(docs[d], docs[d], mem, now).doc)
  /\ UNCHANGED hist

AddCollaborator(actor, d, email, permission) ==
  /\ Quiet
  /\ now < MaxOps
  /\ actor \in users
  /\ AddCollaboratorStatus(actor, d, email) = 200
  /\ LET mem == addCollaborator(docs[d], FindUserByEmail(users, email),
                                permission, actor, now)
     IN Stored("addCollaborator", 200, actor, d,
               SaveDoc(docs[d], docs[d], mem, now).doc)
  /\ UNCHANGED hist

RemoveCollaborator(actor, d, userId) ==
  /\ Quiet
  /\ now < MaxOps
  /\ actor \in users
  /\ RemoveCollaboratorStatus(actor, d) = 200
  /\ LET mem == removeCollaborator(docs[d], userId)
     IN Stored("removeCollaborator", 200, actor, d,
               SaveDoc(docs[d], docs[d], mem, now).doc)
  /\ UNCHANGED hist

\* DELETE /api/users/:id: the two updateMany calls and the removal
\* variant: the user is pulled from permissions only
PullUser_PermsOnly(doc, u) ==
  IF PermIdx(doc, u) # {}
  THEN [doc EXCEPT !.permissions = SelectSeq(@, LAMBDA p : p.user # u)]
  ELSE doc

\* variant: the update that pulls the user also clears the flag
PullUser_Restore(doc, u) ==
  IF PermIdx(doc, u) # {}
  THEN [doc EXCEPT
          !.permissions = SelectSeq(@, LAMBDA p : p.user # u),
          !.collaborators = SelectSeq(@, LAMBDA c : c # u),
          !.isDeleted = FALSE]
  ELSE doc

PullUser(doc, u) ==
  IF PermIdx(doc, u) # {}
  THEN [doc EXCEPT
          !.permissions = SelectSeq(@, LAMBDA p : p.user # u),
          !.collaborators = SelectSeq(@, LAMBDA c : c # u)]
  ELSE doc

DeleteUser(actor, u) ==
  /\ Quiet
  /\ now < MaxOps
  /\ actor \in users
  /\ DeleteUserStatus(actor, u) = 200
  /\ docs' = [d \in DOMAIN docs |->
                PullUser(IF docs[d].author = u
                         THEN [docs[d] EXCEPT !.isDeleted = TRUE]
                         ELSE docs[d], u)]
  /\ users' = users \ {u}
  /\ now' = now + 1
  /\ last' = Response("deleteUser", 200, actor, 0)
  /\ UNCHANGED <<hist, inflight, editor, auth>>

Emails == {UserEmail(1), UserEmail(2), UnknownEmail}

Next ==
  \/ \E a \in UserIds, b \in CreateBodies : CreateDocument(a, b)
  \/ \E a \in UserIds, d \in DocIds, b \in UpdateBodies : UpdateDocument(a, d, b)
  \/ \E a \in UserIds, d \in DocIds : DeleteDocument(a, d)
  \/ \E a \in UserIds, d \in DocIds, e \in Emails, l \in Levels :
       AddCollaborator(a, d, e, l)
  \/ \E a \in UserIds, d \in DocIds, u \in UserIds : RemoveCollaborator(a, d, u)
  \/ \E a \in UserIds, u \in UserIds : DeleteUser(a, u)

Spec == Init /\ [][Next]_vars

(***************************************************************************)
(* Requests that overlap.  A handler awaits Document.findById, changes the *)
(* copy it got, and awaits document.save(); another request may be served  *)
(* between the two awaits.  Two requests are followed: both load before    *)
(* either saves.                                                           *)
(***************************************************************************)
ConcLevels == {"edit"}

ConcBodies ==
  {Body({"content"}, "", ContentTeam, "", "", <<>>),
   Body({"title", "content"}, "T2", ContentPlain, "", "", <<>>)}

\* room on the clock for the saves still to come
Budget ==
  now + Cardinality({p \in Procs : inflight[p] # Idle /\ inflight[p].st = "loaded"})
    < MaxOps

CanBegin(p) ==
  /\ inflight[p] = Idle
  /\ \A q \in Procs : q < p => inflight[q] # Idle
  /\ \A q \in Procs : inflight[q] # Idle => inflight[q].st = "loaded"
  /\ Budget

Loaded(p, op, actor, d, user, permission, mem) ==
  /\ inflight' = [inflight EXCEPT
                    ![p] = [st |-> "loaded", op |-> op, actor |-> actor,
                            doc |-> d, user |-> user,
                            permission |-> permission, loaded |-> docs[d],
                            mem |-> mem]]
  /\ UNCHANGED <<users, docs, now, hist, last, editor, auth>>

BeginUpdate(p, actor, d, b) ==
  /\ CanBegin(p)
  /\ actor \in users
  /\ UpdateStatus(actor, d, b) = 200
  /\ Loaded(p, "update", actor, d, actor, "",
            UpdateMem(users, docs[d], actor, b, now))

BeginAddCollaborator(p, actor, d, email, permission) ==
  /\ CanBegin(p)
  /\ actor \in users
  /\ AddCollaboratorStatus(actor, d, email) = 200
  /\ Loaded(p, "addCollaborator", actor, d, FindUserByEmail(users, email),
            permission,
            addCollaborator(docs[d], FindUserByEmail(users, email),
                            permission, actor, now))

BeginRemoveCollaborator(p, actor, d, userId) ==
  /\ CanBegin(p)
  /\ actor \in users
  /\ RemoveCollaboratorStatus(actor, d) = 200
  /\ Loaded(p, "removeCollaborator", actor, d, userId, "",
            removeCollaborator(docs[d], userId))

\* await document.save() of a request in flight; a rejected save is caught
\* by the handler and answered with 500
FinishSave(p) ==
  /\ \A q \in Procs : inflight[q] # Idle
  /\ inflight[p].st = "loaded"
  /\ LET r == inflight[p]
         saved == SaveDoc(docs[r.doc], r.loaded, r.mem, now)
         code == IF saved.ok THEN 200 ELSE 500
     IN /\ docs' = [docs EXCEPT ![r.doc] = saved.doc]
        /\ now' = IF saved.doc = docs[r.doc] THEN now ELSE now + 1
        /\ hist' = IF saved.ok /\ r.op = "update"
                   THEN HistAfter(r.doc, r.loaded, r.mem) ELSE hist
        /\ inflight' = [inflight EXCEPT
                          ![p] = [st |-> "done", op |-> r.op, doc |-> r.doc,
                                  user |-> r.user, permission |-> r.permission,
                                  loaded |-> r.loaded, mem |-> r.mem,
                                  code |-> code]]
        /\ last' = Response(r.op, code, r.actor, r.doc)
  /\ UNCHANGED <<users, editor, auth>>

NextConc ==
  \/ Next
  \/ \E p \in Procs, a \in UserIds, d \in DocIds, b \in ConcBodies :
       BeginUpdate(p, a, d, b)
  \/ \E p \in Procs, a \in UserIds, d \in DocIds, e \in Emails, l \in ConcLevels :
       BeginAddCollaborator(p, a, d, e, l)
  \/ \E p \in Procs, a \in UserIds, d \in DocIds, u \in UserIds :
       BeginRemoveCollaborator(p, a, d, u)
  \/ \E p \in Procs : FinishSave(p)

SpecConc == Init /\ [][NextConc]_vars

(***************************************************************************)
(* POST /api/documents with its two writes apart.  The handler awaits      *)
(* Document.create, which stores the document, runs the mention loops on   *)
(* the copy it got back, and awaits document.save(); between the two       *)
(* awaits the stored document is the one Document.create wrote.  The       *)
(* second write may be rejected by the store, which the handler answers    *)
(* with 500.                                                               *)
(***************************************************************************)
CreateProc == 1

\* up to and including await Document.create(...)
BeginCreate(actor, b) ==
  /\ Quiet
  /\ now + 1 < MaxOps
  /\ actor \in users
  /\ CreateStatus(actor, b) = 201
  /\ Len(docs) < MaxDocs
  /\ LET d == Len(docs) + 1
         created == CreateCreated(users, actor, b, now)
     IN /\ docs' = Append(docs, created)
        /\ hist' = Append(hist, [edits |-> 0, titleOnly |-> 0])
        /\ inflight' = [inflight EXCEPT
                          ![CreateProc] =
                             [st |-> "loaded", op |-> "create", actor |-> actor,
                              doc |-> d, user |-> actor, permission |-> "",
                              loaded |-> created,
                              mem |-> CreateMem(users, created, actor, b, now)]]
  /\ now' = now + 1
  /\ UNCHANGED <<users, last, editor, auth>>

\* await document.save() resolves, then the 201 response
FinishCreate ==
  /\ inflight[CreateProc] # Idle
  /\ inflight[CreateProc].op = "create"
  /\ LET r == inflight[CreateProc]
         saved == SaveDoc(docs[r.doc], r.loaded, r.mem, now)
         code == IF saved.ok THEN 201 ELSE 500
     IN /\ docs' = [docs EXCEPT ![r.doc] = saved.doc]
        /\ now' = IF saved.doc = docs[r.doc] THEN now ELSE now + 1
        /\ last' = Response("create", code, r.actor, r.doc)
  /\ inflight' = [inflight EXCEPT ![CreateProc] = Idle]
  /\ UNCHANGED <<users, hist, editor, auth>>

\* await document.save() rejects with a store error: the catch block
RejectCreate ==
  /\ inflight[CreateProc] # Idle
  /\ inflight[CreateProc].op = "create"
  /\ last' = Response("create", 500, inflight[CreateProc].actor,
                      inflight[CreateProc].doc)
  /\ inflight' = [inflight EXCEPT ![CreateProc] = Idle]
  /\ UNCHANGED <<users, docs, now, hist, editor, auth>>

NextCreate ==
  \/ \E a \in UserIds, b \in CreateBodies : BeginCreate(a, b)
  \/ FinishCreate
  \/ RejectCreate
  \/ \E a \in UserIds, d \in DocIds, b \in UpdateBodies : UpdateDocument(a, d, b)
  \/ \E a \in UserIds, d \in DocIds : DeleteDocument(a, d)
  \/ \E a \in UserIds, d \in DocIds, e \in Emails, l \in Levels :
       AddCollaborator(a, d, e, l)
  \/ \E a \in UserIds, d \in DocIds, u \in UserIds : RemoveCollaborator(a, d, u)
  \/ \E a \in UserIds, u \in UserIds : DeleteUser(a, u)

SpecCreate == Init /\ [][NextCreate]_vars

(***************************************************************************)
(* The DocumentEditor page at /documents/new (no id, isEditing false).     *)
(* Each change of title or content re-runs the auto-save effect: the       *)
(* cleanup of the previous run, then clearTimeout(autoSaveTimeout) and a   *)
(* new 2 s timer when title and content are not blank.  A timer that fires *)
(* runs the autoSave callback of the render that set it.  A timer is       *)
(* [h, title, content]: its handle and the form its callback closes over.  *)
(***************************************************************************)
MaxChanges == 3

MaxEditorDocs == 2

EditorUser == 1

EditorTitles == {"", " ", "T1", "T2"}

ContentBlank == <<" ">>

EditorContents == {<<>>, ContentBlank, ContentPlain}

\* String.prototype.trim on a title
TrimTitle(t) == IF t = " " THEN "" ELSE t

\* String.prototype.trim on a content
RECURSIVE TrimLeft(_)
TrimLeft(c) == IF c # <<>> /\ Head(c) = " " THEN TrimLeft(Tail(c)) ELSE c

RECURSIVE TrimRight(_)
TrimRight(c) ==
  IF c # <<>> /\ c[Len(c)] = " " THEN TrimRight(SubSeq(c, 1, Len(c) - 1)) ELSE c

TrimContent(c) == TrimRight(TrimLeft(c))

\* formData.title.trim() && formData.content.trim()
FormFilled(title, content) == TrimTitle(title) # "" /\ TrimContent(content) # <<>>

\* the request body made of formData
EditorBody(title, content) ==
  Body(CreateFields \cup {"tags"}, title, content, "private", "draft", <<>>)

\* clearTimeout(h)
ClearTimeout(timers, h) == {tm \in timers : tm.h # h}

\* the debounced auto-save effect after a render with a new title or content
EditorEffect(e, title, content) ==
  LET cleaned == ClearTimeout(ClearTimeout(e.timers, e.cleanup), e.autoSaveTimeout)
      h == e.handles + 1
  IN IF FormFilled(title, content)
     THEN [e EXCEPT !.title = title, !.content = content,
                    !.timers = cleaned \cup
                               {[h |-> h, title |-> title, content |-> content]},
                    !.handles = h,
                    !.cleanup = e.autoSaveTimeout,
                    !.autoSaveTimeout = h,
                    !.autoSaveStatus = "pending"]
     ELSE [e EXCEPT !.title = title, !.content = content,
                    !.timers = cleaned,
                    !.cleanup = e.autoSaveTimeout]

\* handleChange('title', value)
EditorChangeTitle(title) ==
  /\ editor.mounted
  /\ editor.handles < MaxChanges
  /\ title # editor.title
  /\ editor' = EditorEffect(editor, title, editor.content)
  /\ UNCHANGED <<users, docs, now, last, hist, inflight, auth>>

\* handleChange('content', value)
EditorChangeContent(content) ==
  /\ editor.mounted
  /\ editor.handles < MaxChanges
  /\ content # editor.content
  /\ editor' = EditorEffect(editor, editor.title, content)
  /\ UNCHANGED <<users, docs, now, last, hist, inflight, auth>>

\* POST /api/documents from the page, served at once
EditorPost(b) ==
  /\ now < MaxOps
  /\ EditorUser \in users
  /\ CreateStatus(EditorUser, b) = 201
  /\ Len(docs) < MaxEditorDocs
  /\ LET d == Len(docs) + 1
         created == CreateCreated(users, EditorUser, b, now)
         mem == CreateMem(users, created, EditorUser, b, now)
         saved == SaveDoc(created, created, mem, now)
     IN /\ docs' = Append(docs, saved.doc)
        /\ hist' = Append(hist, [edits |-> 0, titleOnly |-> 0])
        /\ last' = Response("create", 201, EditorUser, d)
  /\ now' = now + 1
  /\ UNCHANGED <<users, inflight, auth>>

\* a timer fires: autoSave of the render that set it, with isEditing false
EditorAutoSave(h) ==
  /\ \E tm \in editor.timers :
       /\ tm.h = h
       /\ FormFilled(tm.title, tm.content)
       /\ EditorPost(EditorBody(tm.title, tm.content))
  /\ editor' = [editor EXCEPT
                  !.timers = ClearTimeout(@, h),
                  !.autoSaveStatus = IF editor.mounted THEN "saved" ELSE @]

\* the Save button: handleSave, saveMutation, and on success navigate to
\* /documents/:id, which unmounts the page and runs the effect's cleanup
EditorManualSave ==
  /\ editor.mounted
  /\ FormFilled(editor.title, editor.content)
  /\ EditorPost(EditorBody(editor.title, editor.content))
  /\ editor' = [editor EXCEPT
                  !.mounted = FALSE,
                  !.timers = ClearTimeout(@, editor.cleanup)]

NextEditor ==
  \/ \E t \in EditorTitles : EditorChangeTitle(t)
  \/ \E c \in EditorContents : EditorChangeContent(c)
  \/ \E h \in 1..MaxChanges : EditorAutoSave(h)
  \/ EditorManualSave

SpecEditor == Init /\ [][NextEditor]_vars

(***************************************************************************)
(* The auth routes.  An account is keyed by its normalised email.  The     *)
(* User model's getEmailVerificationToken returns a fresh token, stores    *)
(* its SHA-256 hash and an expiry; the plain token leaves only by mail.    *)
(***************************************************************************)
MaxTokens == 3

MaxTime == 2

\* ticks a verification token stays valid
TokenTtl == 1

AuthEmails == {"eve@x", "dan@x"}

\* req.body.email as sent
ReqEmails == {"eve@x", "Eve@x", "dan@x"}

Passwords == {"pw", "bad"}

TokenIds == 1..MaxTokens

\* express-validator normalizeEmail()
NormalizeEmail(e) == IF e = "Eve@x" THEN "eve@x" ELSE e

\* crypto.createHash('sha256').update(token).digest('hex')
Sha256(t) == [sha256 |-> t]

\* the pre-save password hash, and comparePassword
HashPassword(pw) == [bcrypt |-> pw]

comparePassword(account, pw) == account.password = HashPassword(pw)

Undefined == [undefined |-> TRUE]

Registered(e) == e \in AuthEmails /\ auth.accounts[e].registered

\* user.getEmailVerificationToken() followed by user.save()
WithVerificationToken(account, t) ==
  [account EXCEPT !.emailVerificationToken = Sha256(t),
                  !.emailVerificationExpire = auth.time + TokenTtl]

\* User.findOne({emailVerificationToken, emailVerificationExpire: {$gt: now}})
FindByVerificationToken(t) ==
  {e \in AuthEmails :
     /\ auth.accounts[e].registered
     /\ auth.accounts[e].emailVerificationToken = Sha256(t)
     /\ auth.accounts[e].emailVerificationExpire > auth.time}

AuthFrame == UNCHANGED <<users, docs, now, last, hist, inflight, editor>>

\* POST /api/auth/register
Register(email, pw) ==
  /\ auth.issued < MaxTokens
  /\ NormalizeEmail(email) \in AuthEmails
  /\ ~Registered(NormalizeEmail(email))
  /\ LET e == NormalizeEmail(email)
         t == auth.issued + 1
         user == [registered |-> TRUE, password |-> HashPassword(pw),
                  isEmailVerified |-> FALSE,
                  emailVerificationToken |-> Undefined,
                  emailVerificationExpire |-> 0]
     IN auth' = [auth EXCEPT
                   !.accounts[e] = WithVerificationToken(user, t),
                   !.issued = t,
                   !.mailed = @ \cup {[to |-> e, token |-> t]}]
  /\ AuthFrame

\* POST /api/auth/resend-verification
ResendVerification(email) ==
  /\ auth.issued < MaxTokens
  /\ Registered(NormalizeEmail(email))
  /\ ~auth.accounts[NormalizeEmail(email)].isEmailVerified
  /\ LET e == NormalizeEmail(email)
         t == auth.issued + 1
     IN auth' = [auth EXCEPT
                   !.accounts[e] = WithVerificationToken(@, t),
                   !.issued = t,
                   !.mailed = @ \cup {[to |-> e, token |-> t]}]
  /\ AuthFrame

\* GET /api/auth/verifyemail/:verificationtoken
VerifyEmail(t) ==
  /\ FindByVerificationToken(t) # {}
  /\ LET e == CHOOSE x \in FindByVerificationToken(t) : TRUE
     IN auth' = [auth EXCEPT
                   !.accounts[e] = [@ EXCEPT
                                      !.isEmailVerified = TRUE,
                                      !.emailVerificationToken = Undefined,
                                      !.emailVerificationExpire = 0]]
  /\ AuthFrame

\* POST /api/auth/manual-verify
ManualVerify(email) ==
  /\ Registered(NormalizeEmail(email))
  /\ ~auth.accounts[NormalizeEmail(email)].isEmailVerified
  /\ auth' = [auth EXCEPT
                !.accounts[NormalizeEmail(email)] =
                   [@ EXCEPT !.isEmailVerified = TRUE,
                             !.emailVerificationToken = Undefined,
                             !.emailVerificationExpire = 0]]
  /\ AuthFrame

\* POST /api/auth/login
LoginStatus(email, pw) ==
  IF ~Registered(NormalizeEmail(email)) THEN 401
  ELSE IF ~comparePassword(auth.accounts[NormalizeEmail(email)], pw) THEN 401
  ELSE IF ~auth.accounts[NormalizeEmail(email)].isEmailVerified THEN 401
  ELSE 200

Login(email, pw) ==
  /\ LoginStatus(email, pw) = 200
  /\ auth' = [auth EXCEPT !.jwts = @ \cup {NormalizeEmail(email)}]
  /\ AuthFrame

\* time passes
Tick ==
  /\ auth.time < MaxTime
  /\ auth' = [auth EXCEPT !.time = @ + 1]
  /\ AuthFrame

NextAuth ==
  \/ \E e \in ReqEmails, pw \in Passwords : Register(e, pw)
  \/ \E e \in ReqEmails : ResendVerification(e)
  \/ \E t \in TokenIds : VerifyEmail(t)
  \/ \E e \in ReqEmails : ManualVerify(e)
  \/ \E e \in ReqEmails, pw \in Passwords : Login(e, pw)
  \/ Tick

SpecAuth == Init /\ [][NextAuth]_vars

(***************************************************************************)
(* Properties.                                                             *)
(***************************************************************************)
PermUsers(doc) == {doc.permissions[i].user : i \in DOMAIN doc.permissions}

CollabUsers(doc) == {doc.collaborators[i] : i \in DOMAIN doc.collaborators}

MentionUsers(doc) == {doc.mentions[i].user : i \in DOMAIN doc.mentions}

CollabCount(doc, u) ==
  Cardinality({i \in DOMAIN doc.collaborators : doc.collaborators[i] = u})

MentionCount(doc, u) ==
  Cardinality({i \in DOMAIN doc.mentions : doc.mentions[i].user = u})

\* the level of the entry of u, "" when u has none
LevelOf(doc, u) ==
  IF PermIdx(doc, u) = {} THEN ""
  ELSE doc.permissions[Min(PermIdx(doc, u))].permission

\* view = 1 < edit = 2 < admin = 3
Rank(l) == IF l = "view" THEN 1 ELSE IF l = "edit" THEN 2 ELSE 3

\* user ids a caller may pass: the accounts and an id that is no account
AnyUserIds == UserIds \cup {9}

\* C1: hasPermission(doc, userId, requiredLevel) is true exactly when the
\* document is public and view is required, or userId is the author, or
\* permissions holds an entry for userId whose level ranks at least as high
\* as the required one.
C1_HasPermissionRule ==
  \A d \in DOMAIN docs, u \in AnyUserIds, r \in Levels :
    hasPermission(docs[d], u, r) <=>
      \/ docs[d].privacy = "public" /\ r = "view"
      \/ u = docs[d].author
      \/ \E i \in DOMAIN docs[d].permissions :
           /\ docs[d].permissions[i].user = u
           /\ Rank(docs[d].permissions[i].permission) >= Rank(r)

\* a private document on which one non-author holds edit (granted edit,
\* denied admin) and another non-author holds nothing (denied view)
C1_Witness ==
  \E d \in DOMAIN docs, u \in UserIds, v \in UserIds :
    /\ docs[d].privacy = "private"
    /\ u # docs[d].author /\ v # docs[d].author
    /\ LevelOf(docs[d], u) = "edit"
    /\ hasPermission(docs[d], u, "edit") /\ ~hasPermission(docs[d], u, "admin")
    /\ PermIdx(docs[d], v) = {}
    /\ ~hasPermission(docs[d], v, "view")

\* C2: after any sequence of requests, collaborators and the users keyed in
\* permissions are the same set, permissions has at most one entry per user
\* and collaborators holds each id at most once.
C2_CollaboratorsMirrorPermissions ==
  \A d \in DOMAIN docs :
    /\ CollabUsers(docs[d]) = PermUsers(docs[d])
    /\ \A u \in UserIds : Cardinality(PermIdx(docs[d], u)) <= 1
    /\ \A u \in UserIds : CollabCount(docs[d], u) <= 1

\* a document that still has collaborators after a mentioned user was taken
\* off it again (by remove collaborator or by user deletion)
C2_Witness ==
  \E d \in DOMAIN docs :
    /\ docs[d].permissions # <<>>
    /\ MentionUsers(docs[d]) \ PermUsers(docs[d]) # {}

\* C3: N successive successful updates that each change the content of a
\* freshly created document leave exactly N version entries, numbered
\* 2..N+1, and currentVersion = N+1.
C3_NEditsGiveNVersions ==
  \A d \in DOMAIN docs :
    (hist[d].titleOnly = 0 /\ hist[d].edits >= 1) =>
      /\ Len(docs[d].versions) = hist[d].edits
      /\ \A i \in DOMAIN docs[d].versions : docs[d].versions[i].versionNumber = i + 1
      /\ docs[d].currentVersion = hist[d].edits + 1

C5_CreateRecordsNoVersion ==
  /\ (last.op = "create" /\ last.code = 201) =>
       /\ docs[Len(docs)].versions = <<>>
       /\ docs[Len(docs)].currentVersion = 1
  /\ \A d \in DOMAIN docs :
       hist[d].edits + hist[d].titleOnly = 1 =>
         docs[d].versions[Len(docs[d].versions)].versionNumber = 2

\* the users the @tokens of a content resolve to; no account matches "zed",
\* only alice matches "al" and "AL", only bob matches "bob"
Mentioned(existing, content) ==
  IF content = ContentTeam THEN {1, 2} \cap existing ELSE {}

\* C6: an update whose content mentions a user who holds an entry at level
\* edit or admin leaves that entry at the same level.
C6_MentionNeverLowersLevel ==
  [][\A d \in DOMAIN docs, u \in UserIds :
       ( /\ last'.op = "update" /\ last'.code = 200
         /\ docs'[d] # docs[d]
         /\ LevelOf(docs[d], u) \in {"edit", "admin"}
         /\ u \in Mentioned(users, docs'[d].content) ) =>
       LevelOf(docs'[d], u) = LevelOf(docs[d], u)]_vars

\* C7: right after a create, every user the content's mentions resolve to
\* has exactly one permission entry, at level view and granted by the
\* creator, is in collaborators once and in mentions once, however often the
\* content mentions the user; tokens that resolve to nobody add nothing.
C7_CreateSharesWithMentioned ==
  (last.op = "create" /\ last.code = 201) =>
    LET doc == docs[Len(docs)]
        ms == Mentioned(users, doc.content)
    IN /\ PermUsers(doc) = ms
       /\ CollabUsers(doc) = ms
       /\ MentionUsers(doc) = ms
       /\ Len(doc.permissions) = Cardinality(ms)
       /\ \A u \in ms :
            /\ LevelOf(doc, u) = "view"
            /\ doc.permissions[Min(PermIdx(doc, u))].grantedBy = doc.author
            /\ CollabCount(doc, u) = 1
            /\ MentionCount(doc, u) = 1

\* a document just created from the content that mentions alice twice, bob
\* once and nobody's "zed"
C7_Witness ==
  /\ last.op = "create" /\ last.code = 201
  /\ docs[Len(docs)].content = ContentTeam
  /\ MentionUsers(docs[Len(docs)]) = {1, 2}

\* C8: granting a level to a user twice in a row leaves one entry for the
\* user, at that level, and the user once in collaborators; a grant to a
\* user who has an entry updates it in place.
C8_GrantTwice ==
  \A d \in DOMAIN docs, u \in UserIds, l \in Levels, g \in UserIds :
    LET d1 == addCollaborator(docs[d], u, l, g, now)
        d2 == addCollaborator(d1, u, l, g, now)
    IN /\ Cardinality(PermIdx(d2, u)) = 1
       /\ LevelOf(d2, u) = l
       /\ CollabCount(d2, u) = 1
       /\ Len(d2.permissions) = Len(d1.permissions)
       /\ PermIdx(docs[d], u) # {} =>
            /\ Len(d1.permissions) = Len(docs[d].permissions)
            /\ PermIdx(d1, u) = PermIdx(docs[d], u)

C8_GrantStep ==
  (last'.op = "addCollaborator" /\ last'.code = 200) =>
    \A a \in UserIds, d \in DOMAIN docs, e \in Emails, l \in Levels :
      (docs'[d] # docs[d] /\ AddCollaborator(a, d, e, l)) =>
        LET u == FindUserByEmail(users, e)
        IN /\ Cardinality(PermIdx(docs'[d], u)) = 1
           /\ LevelOf(docs'[d], u) = l
           /\ docs'[d].permissions[Min(PermIdx(docs'[d], u))].grantedBy = a
           /\ CollabCount(docs'[d], u) = 1
           /\ PermIdx(docs[d], u) # {} =>
                /\ Len(docs'[d].permissions) = Len(docs[d].permissions)
                /\ PermIdx(docs'[d], u) = PermIdx(docs[d], u)

C8_GrantIsIdempotent == []C8_GrantTwice /\ [][C8_GrantStep]_vars

\* a grant has updated an entry in place: the entry is not the last one and
\* is newer than the one after it
C8_Witness ==
  /\ last.op = "addCollaborator" /\ last.code = 200
  /\ \E d \in DOMAIN docs :
       \E i \in DOMAIN docs[d].permissions :
         /\ i < Len(docs[d].permissions)
         /\ docs[d].permissions[i].grantedAt > docs[d].permissions[i + 1].grantedAt

\* the entries of everybody but u
OthersPerms(doc, u) == SelectSeq(doc.permissions, LAMBDA p : p.user # u)

OthersCollabs(doc, u) == SelectSeq(doc.collaborators, LAMBDA c : c # u)

\* C9: a revoke after a grant leaves the user in neither permissions nor
\* collaborators and the entries of the other users as they were; revoking
\* a user who has no entry changes neither list and is answered with success.
C9_RevokeUndoesGrant ==
  \A d \in DOMAIN docs, u \in UserIds, l \in Levels, g \in UserIds :
    LET d1 == addCollaborator(docs[d], u, l, g, now)
        d2 == removeCollaborator(d1, u)
        d0 == removeCollaborator(docs[d], u)
    IN /\ (~docs[d].isDeleted /\ IsAuthorOrAdmin(docs[d], g)) =>
            RemoveCollaboratorStatus(g, d) = 200
       /\ u \notin PermUsers(d2) /\ u \notin CollabUsers(d2)
       /\ d2.permissions = OthersPerms(docs[d], u)
       /\ d2.collaborators = OthersCollabs(docs[d], u)
       /\ PermIdx(docs[d], u) = {} =>
            /\ d0.permissions = docs[d].permissions
            /\ d0.collaborators = docs[d].collaborators

C9_RevokeStep ==
  last'.op = "removeCollaborator" =>
    \A a \in UserIds, d \in DOMAIN docs, u \in UserIds :
      RemoveCollaborator(a, d, u) =>
        /\ u \notin PermUsers(docs'[d]) /\ u \notin CollabUsers(docs'[d])
        /\ docs'[d].permissions = OthersPerms(docs[d], u)
        /\ docs'[d].collaborators = OthersCollabs(docs[d], u)
        /\ PermIdx(docs[d], u) = {} => docs'[d] = docs[d]

C9_RevokeRoundTrip == []C9_RevokeUndoesGrant /\ [][C9_RevokeStep]_vars

\* a user was granted an entry by a grant request and then revoked, while
\* another user keeps an entry
C9_Witness ==
  /\ last.op = "removeCollaborator" /\ last.code = 200
  /\ \E d \in DOMAIN docs, u \in UserIds :
       /\ u \notin PermUsers(docs[d]) /\ u \notin MentionUsers(docs[d])
       /\ docs[d].vkey >= 2
       /\ docs[d].permissions # <<>>

\* C10: when two overlapping requests have both completed successfully and
\* one of them granted a level to user u while the other granted to or
\* revoked another user, or updated a content that does not mention u, then
\* u holds the granted entry in the stored document.
C10_NoGrantLost ==
  \A p \in Procs, q \in Procs :
    ( /\ p # q
      /\ inflight[p] # Idle /\ inflight[q] # Idle
      /\ inflight[p].st = "done" /\ inflight[q].st = "done"
      /\ inflight[p].code = 200 /\ inflight[q].code = 200
      /\ inflight[p].op = "addCollaborator"
      /\ \/ inflight[q].op \in {"addCollaborator", "removeCollaborator"}
            /\ inflight[q].user # inflight[p].user
         \/ inflight[q].op = "update"
            /\ inflight[p].user \notin
                 Mentioned(users, docs[inflight[p].doc].content) ) =>
    LevelOf(docs[inflight[p].doc], inflight[p].user) = inflight[p].permission

\* C11: when two overlapping update requests that both change the content
\* of one document have both completed successfully, versions holds two new
\* entries whose versionNumbers are distinct and consecutive, and
\* currentVersion is the larger of the two.
C11_NoVersionLostOrDuplicated ==
  \A p \in Procs, q \in Procs :
    ( /\ p < q
      /\ inflight[p] # Idle /\ inflight[p].st = "done"
      /\ inflight[q] # Idle /\ inflight[q].st = "done"
      /\ inflight[p].op = "update" /\ inflight[q].op = "update"
      /\ inflight[p].code = 200 /\ inflight[q].code = 200
      /\ inflight[p].doc = inflight[q].doc
      /\ inflight[p].mem.content # inflight[p].loaded.content
      /\ inflight[q].mem.content # inflight[q].loaded.content ) =>
    LET vs == docs[inflight[p].doc].versions
        n == Len(vs)
    IN /\ n = Len(inflight[p].loaded.versions) + 2
       /\ vs[n].versionNumber = vs[n - 1].versionNumber + 1
       /\ docs[inflight[p].doc].currentVersion = vs[n].versionNumber

\* C12: on a document that is not deleted, an update by an actor without
\* edit permission is answered 403 and cannot take place, so no field of the
\* document changes; an update by the author or by a holder of level edit or
\* admin is accepted.
C12_UpdateGatedByEdit ==
  \A d \in DOMAIN docs, a \in users, b \in UpdateBodies :
    (~docs[d].isDeleted /\ UpdateValid(b)) =>
      /\ ~hasPermission(docs[d], a, "edit") =>
            /\ UpdateStatus(a, d, b) = 403
            /\ ~ENABLED UpdateDocument(a, d, b)
      /\ (a = docs[d].author \/ LevelOf(docs[d], a) \in {"edit", "admin"}) =>
            UpdateStatus(a, d, b) = 200

\* a user who holds an entry and is not the author has updated a live
\* document, while another account has no edit permission on it
C12_Witness ==
  /\ last.op = "update" /\ last.code = 200
  /\ \E d \in DOMAIN docs, a \in users :
       /\ ~docs[d].isDeleted
       /\ docs[d].lastModifiedBy # docs[d].author
       /\ LevelOf(docs[d], docs[d].lastModifiedBy) \in {"edit", "admin"}
       /\ ~hasPermission(docs[d], a, "edit")
       /\ UpdateStatus(a, d, CHOOSE b \in UpdateBodies : UpdateValid(b)) = 403

\* C13: reading a private document that is not deleted succeeds for its
\* author and for every user who holds a permission entry, is answered 403
\* for any other account and 401 when no identity is supplied.
C13_PrivateReadFollowsPermissions ==
  \A d \in DOMAIN docs :
    (docs[d].privacy = "private" /\ ~docs[d].isDeleted) =>
      /\ GetStatus(Anonymous, d) = 401
      /\ \A a \in users :
           GetStatus(a, d) =
             IF a = docs[d].author \/ a \in PermUsers(docs[d]) THEN 200 ELSE 403

\* C14: on a document that is not deleted, a delete is accepted exactly for
\* the author and for accounts with the platform role admin; for anybody
\* else, holders of document-level admin included, it is answered 403 and
\* cannot take place.  A delete that takes place sets isDeleted and changes
\* no other field.
C14_DeleteGate ==
  \A d \in DOMAIN docs, a \in users :
    ~docs[d].isDeleted =>
      IF a = docs[d].author \/ UserRole(a) = "admin"
      THEN DeleteStatus(a, d) = 200
      ELSE DeleteStatus(a, d) = 403 /\ ~ENABLED DeleteDocument(a, d)

C14_DeleteStep ==
  last'.op = "delete" =>
    \A d \in DOMAIN docs :
      docs'[d] # docs[d] =>
        /\ ~docs[d].isDeleted
        /\ docs'[d] = [docs[d] EXCEPT !.isDeleted = TRUE]

C15_ShareGate ==
  \A d \in DOMAIN docs, a \in users :
    ~docs[d].isDeleted =>
      IF a = docs[d].author \/ UserRole(a) = "admin"
      THEN /\ \A e \in Emails :
                FindUserByEmail(users, e) # 0 => AddCollaboratorStatus(a, d, e) = 200
           /\ RemoveCollaboratorStatus(a, d) = 200
      ELSE /\ \A e \in Emails, l \in Levels :
                /\ AddCollaboratorStatus(a, d, e) = 403
                /\ ~ENABLED AddCollaborator(a, d, e, l)
           /\ RemoveCollaboratorStatus(a, d) = 403
           /\ \A u \in UserIds : ~ENABLED RemoveCollaborator(a, d, u)

\* a grant has just been made on a live document on which an account that
\* is neither author nor platform admin holds level edit or admin
C15_Witness ==
  /\ last.op \in {"addCollaborator", "removeCollaborator"} /\ last.code = 200
  /\ \E d \in DOMAIN docs, u \in users :
       /\ ~docs[d].isDeleted
       /\ u # docs[d].author /\ UserRole(u) # "admin"
       /\ LevelOf(docs[d], u) \in {"edit", "admin"}
       /\ RemoveCollaboratorStatus(u, d) = 403

\* C16: once isDeleted of a document is true it is true in every later
\* state: no step sets it back to false.
C16_IsDeletedIsALatch ==
  [][\A d \in DOMAIN docs : docs[d].isDeleted => docs'[d].isDeleted]_vars

\* a request has been served after a document was deleted by a delete
\* request: the author's account still exists and a user deletion followed
C16_Witness ==
  /\ last.op = "deleteUser" /\ last.code = 200
  /\ \E d \in DOMAIN docs : docs[d].isDeleted /\ docs[d].author \in users

\* C17: every request on a soft-deleted document (get, update, delete, get
\* versions, add collaborator, remove collaborator) is answered 404 and
\* cannot take place; no list query (listing, search, suggestions, a user's
\* documents, a user's collaborations) returns the document; and no step
\* changes its title, content, versions or mentions.
C17_DeletedIsNotFound ==
  \A d \in DOMAIN docs :
    docs[d].isDeleted =>
      /\ GetStatus(Anonymous, d) = 404
      /\ \A a \in users :
           /\ GetStatus(a, d) = 404
           /\ GetVersionsStatus(a, d) = 404
           /\ DeleteStatus(a, d) = 404
           /\ RemoveCollaboratorStatus(a, d) = 404
           /\ \A e \in Emails : AddCollaboratorStatus(a, d, e) = 404
           /\ \A b \in UpdateBodies : UpdateValid(b) => UpdateStatus(a, d, b) = 404
           /\ ~ENABLED DeleteDocument(a, d)
           /\ ~ENABLED (\E b \in UpdateBodies : UpdateDocument(a, d, b))
           /\ ~ENABLED (\E e \in Emails, l \in Levels : AddCollaborator(a, d, e, l))
           /\ ~ENABLED (\E u \in UserIds : RemoveCollaborator(a, d, u))
      /\ \A a \in users \cup {Anonymous}, hits \in SUBSET DOMAIN docs :
           /\ d \notin SearchDocuments(a, hits)
           /\ d \notin SearchSuggestions(a, hits)
      /\ \A a \in users :
           /\ d \notin ListDocuments(a)
           /\ \A id \in users :
                d \notin UserDocuments(a, id) /\ d \notin UserCollaborations(a, id)

C17_DeletedDataStep ==
  \A d \in DOMAIN docs :
    docs[d].isDeleted =>
      /\ docs'[d].title = docs[d].title
      /\ docs'[d].content = docs[d].content
      /\ docs'[d].versions = docs[d].versions
      /\ docs'[d].mentions = docs[d].mentions

C17_DeletedIsUnreachable == []C17_DeletedIsNotFound /\ [][C17_DeletedDataStep]_vars

\* a deleted document whose author still has an account keeps its version
\* entries and the mention of a user whose account has since been deleted
C17_Witness ==
  \E d \in DOMAIN docs :
    /\ docs[d].isDeleted
    /\ docs[d].author \in users
    /\ docs[d].versions # <<>>
    /\ \E u \in MentionUsers(docs[d]) : u \notin users

\* C18: for every account that has been deleted, each document it authored
\* has isDeleted = TRUE and the account is in neither permissions nor
\* collaborators of any document; an admin's request to delete their own
\* account is answered 400 and cannot take place.
C18_UserDeletionCascades ==
  /\ \A u \in UserIds \ users, d \in DOMAIN docs :
       /\ docs[d].author = u => docs[d].isDeleted
       /\ u \notin PermUsers(docs[d])
       /\ u \notin CollabUsers(docs[d])
  /\ \A a \in users :
       UserRole(a) = "admin" =>
         DeleteUserStatus(a, a) = 400 /\ ~ENABLED DeleteUser(a, a)

\* an account that was mentioned in somebody else's live document, and so
\* held an entry there, has just been deleted, and another entry remains
C18_Witness ==
  /\ last.op = "deleteUser" /\ last.code = 200
  /\ \E u \in UserIds \ users, d \in DOMAIN docs :
       /\ docs[d].author # u
       /\ ~docs[d].isDeleted
       /\ u \in MentionUsers(docs[d])
       /\ docs[d].permissions # <<>>

\* C19: every step that changes the stored title or content of an existing
\* document appends exactly one entry to versions and raises currentVersion
\* by exactly 1; a save that is rejected stores nothing.
C19_ChangeStep ==
  /\ \A d \in DOMAIN docs :
       (docs'[d].title # docs[d].title \/ docs'[d].content # docs[d].content) =>
         /\ Len(docs'[d].versions) = Len(docs[d].versions) + 1
         /\ docs'[d].currentVersion = docs[d].currentVersion + 1
  /\ (\E p \in Procs :
        /\ inflight'[p] # inflight[p]
        /\ inflight'[p].st = "done" /\ inflight'[p].code = 500) =>
       docs' = docs

C19_ContentChangeRecordsOneVersion == [][C19_ChangeStep]_vars

\* C20 as stated: a step that changes neither the title nor the content of a
\* document leaves its lastModifiedBy as it was.
C20_LastModifiedByTracksContent ==
  [][\A d \in DOMAIN docs :
       (docs'[d].title = docs[d].title /\ docs'[d].content = docs[d].content) =>
         docs'[d].lastModifiedBy = docs[d].lastModifiedBy]_vars

\* C20: lastModifiedBy is the actor of the most recent accepted update of
\* the document, whatever fields the update carried, and the author when
\* there has been none: a create sets it to the author, every accepted
\* update sets it to its actor, and no other request changes it.
C20_LastModifiedStep ==
  /\ last'.op = "update" =>
       \A a \in UserIds, d \in DOMAIN docs, b \in UpdateBodies :
         UpdateDocument(a, d, b) => docs'[d].lastModifiedBy = a
  /\ last'.op # "update" =>
       \A d \in DOMAIN docs : docs'[d].lastModifiedBy = docs[d].lastModifiedBy
  /\ Len(docs') > Len(docs) =>
       docs'[Len(docs')].lastModifiedBy = docs'[Len(docs')].author

C20_LastModifiedByIsLastUpdater == [][C20_LastModifiedStep]_vars

\* a user who is not the author has just updated a document without
\* changing its title or content: the newest version entry is not theirs
C20_Witness ==
  /\ last.op = "update" /\ last.code = 200
  /\ \E d \in DOMAIN docs :
       /\ docs[d].lastModifiedBy # docs[d].author
       /\ docs[d].versions[Len(docs[d].versions)].createdBy # docs[d].lastModifiedBy
       /\ docs[d].status = "archived"

\* C21: mentions holds each user at most once; every step keeps the entries
\* it had, with their timestamps, and only appends; an update that changes
\* the content appends exactly the users the new content resolves to who
\* were not yet recorded.
C21_MentionsUnique ==
  \A d \in DOMAIN docs, u \in UserIds : MentionCount(docs[d], u) <= 1

C21_MentionsStep ==
  \A d \in DOMAIN docs :
    /\ IsPrefix(docs[d].mentions, docs'[d].mentions)
    /\ (last'.op = "update" /\ docs'[d].content # docs[d].content) =>
         MentionUsers(docs'[d]) =
           MentionUsers(docs[d]) \cup Mentioned(users, docs'[d].content)

C21_MentionsAppendOnly == []C21_MentionsUnique /\ [][C21_MentionsStep]_vars

\* an update has just brought back a content that mentions users who were
\* recorded by an earlier request: their entries carry the older timestamp
C21_Witness ==
  /\ last.op = "update" /\ last.code = 200
  /\ \E d \in DOMAIN docs :
       /\ docs[d].content = ContentTeam
       /\ hist[d].edits >= 2
       /\ \E i \in DOMAIN docs[d].mentions :
            docs[d].mentions[i].mentionedAt < now - 1

\* C22 as stated: a document that has just been created has status draft
\* and isDeleted = FALSE.
C22_CreateStartsDraft ==
  (last.op = "create" /\ last.code = 201) =>
    /\ docs[Len(docs)].status = "draft"
    /\ ~docs[Len(docs)].isDeleted

\* C22: a document that has just been created has isDeleted = FALSE and the
\* status its request asked for, which is draft or published and never
\* archived.
C22_CreateStep ==
  Len(docs') > Len(docs) =>
    /\ ~docs'[Len(docs')].isDeleted
    /\ docs'[Len(docs')].status \in {"draft", "published"}
    /\ \A a \in UserIds, b \in CreateBodies :
         CreateDocument(a, b) => docs'[Len(docs')].status = b.status

C22_CreateStartsAsRequested == [][C22_CreateStep]_vars

\* a document has just been created with status published
C22_Witness ==
  /\ last.op = "create" /\ last.code = 201
  /\ docs[Len(docs)].status = "published"
  /\ ~docs[Len(docs)].isDeleted

\* C23: when requests are served one at a time, the versionNumbers of a
\* document's versions rise by exactly 1 from each entry to the next, no two
\* entries share a versionNumber, and currentVersion is the largest
\* versionNumber (1 when versions is empty).
C23_VersionNumbersConsecutive ==
  \A d \in DOMAIN docs :
    LET vs == docs[d].versions
    IN /\ \A i \in 1..(Len(vs) - 1) :
            vs[i + 1].versionNumber = vs[i].versionNumber + 1
       /\ \A i \in DOMAIN vs, j \in DOMAIN vs :
            vs[i].versionNumber = vs[j].versionNumber => i = j
       /\ docs[d].currentVersion =
            IF vs = <<>> THEN 1 ELSE vs[Len(vs)].versionNumber
       /\ \A i \in DOMAIN vs : vs[i].versionNumber <= docs[d].currentVersion

\* a document whose title or content has been changed twice since creation
C23_Witness ==
  \E d \in DOMAIN docs :
    /\ Len(docs[d].versions) >= 3
    /\ docs[d].currentVersion = docs[d].versions[Len(docs[d].versions)].versionNumber
    /\ hist[d].edits + hist[d].titleOnly >= 2

\* C24: listing and search agree with hasPermission(doc, u, "view"): a
\* document is returned to an authenticated user exactly when it is not
\* deleted, matches the text query and the status and privacy filters of the
\* request, and the user is its author, it is public, or the user holds a
\* permission entry; a search without authentication returns only public,
\* non-deleted documents; a private document is never returned to a user
\* who is neither its author nor a permission holder.
C24_ListingFollowsViewPermission ==
  \A d \in DOMAIN docs :
    LET doc == docs[d]
        matches(hits, st, pr) == /\ d \in hits
                                 /\ ~doc.isDeleted
                                 /\ st # "" => doc.status = st
                                 /\ pr # "" => doc.privacy = pr
    IN /\ \A hits \in {{d}, DOMAIN docs \ {d}}, st \in StatusFilters :
            /\ \A u \in users :
                 /\ d \in ListQuery(u, st, hits) <=>
                      (matches(hits, st, "") /\ hasPermission(doc, u, "view"))
                 /\ \A pr \in PrivacyFilters :
                      d \in SearchQuery(u, hits, st, pr) <=>
                        (matches(hits, st, pr) /\ hasPermission(doc, u, "view"))
            /\ \A pr \in PrivacyFilters :
                 d \in SearchQuery(Anonymous, hits, st, pr) =>
                   (doc.privacy = "public" /\ ~doc.isDeleted)
       /\ \A u \in users :
            (doc.privacy = "private" /\ doc.author # u /\ u \notin PermUsers(doc)) =>
              \A st \in StatusFilters :
                /\ d \notin ListQuery(u, st, DOMAIN docs)
                /\ \A pr \in PrivacyFilters :
                     d \notin SearchQuery(u, DOMAIN docs, st, pr)

\* a private, non-deleted document is listed and found for a permission
\* holder who is not its author, and for neither a third user nor an
\* unauthenticated search
C24_Witness ==
  \E d \in DOMAIN docs, u \in users, v \in users :
    /\ docs[d].privacy = "private" /\ ~docs[d].isDeleted
    /\ u # docs[d].author /\ u \in PermUsers(docs[d])
    /\ v # docs[d].author /\ v \notin PermUsers(docs[d])
    /\ d \in ListQuery(u, docs[d].status, {d})
    /\ d \in SearchQuery(u, {d}, "", "private")
    /\ d \notin ListQuery(v, "", {d})
    /\ d \notin SearchQuery(v, {d}, "", "")
    /\ d \notin SearchQuery(Anonymous, {d}, "", "private")

\* C25: creating a document is one atomic change of the store: a document
\* enters the store with the users mentioned in its content already in
\* mentions, permissions and collaborators, so that no reader can find it
\* without them, and a create that answers with an error has left no
\* document in the store.
C25_CreateStep ==
  /\ Len(docs') > Len(docs) =>
       LET doc == docs'[Len(docs')]
       IN Mentioned(users, doc.content) \subseteq
            (MentionUsers(doc) \cap PermUsers(doc) \cap CollabUsers(doc))
  /\ ( /\ inflight[CreateProc] # Idle
       /\ inflight'[CreateProc] = Idle
       /\ last'.code = 500 ) =>
       inflight[CreateProc].doc \notin DOMAIN docs'

C25_CreateIsAtomic == [][C25_CreateStep]_vars

\* C26: a request that leaves the title and the content of a document as
\* they were (an update of status, privacy or tags only, an update that
\* resubmits the stored title and content, a grant, a revocation, a delete)
\* appends no version entry and leaves versions and currentVersion
\* unchanged.
C26_FrameStep ==
  \A d \in DOMAIN docs :
    /\ (docs'[d].title = docs[d].title /\ docs'[d].content = docs[d].content) =>
         /\ docs'[d].versions = docs[d].versions
         /\ docs'[d].currentVersion = docs[d].currentVersion
    /\ last'.op \in {"addCollaborator", "removeCollaborator", "delete"} =>
         /\ docs'[d].versions = docs[d].versions
         /\ docs'[d].currentVersion = docs[d].currentVersion
    /\ last'.op = "update" =>
         \A b \in UpdateBodies :
           ( /\ "title" \in b.has => b.title = docs[d].title
             /\ "content" \in b.has => b.content = docs[d].content
             /\ \E a \in users : UpdateDocument(a, d, b) ) =>
           /\ docs'[d].versions = docs[d].versions
           /\ docs'[d].currentVersion = docs[d].currentVersion

C26_NoVersionWithoutChange == [][C26_FrameStep]_vars

\* a document archived by an update that carried no title and no content,
\* still with the single version entry of its creation
C26_Witness ==
  /\ last.op = "update" /\ last.code = 200
  /\ \E d \in DOMAIN docs :
       /\ docs[d].status = "archived"
       /\ Len(docs[d].versions) = 1
       /\ docs[d].currentVersion = 2
       /\ hist[d].edits + hist[d].titleOnly = 0

\* C27: the author of a document never appears in its permissions or in
\* its collaborators.
C27_AuthorIsNoCollaborator ==
  \A d \in DOMAIN docs :
    /\ docs[d].author \notin PermUsers(docs[d])
    /\ docs[d].author \notin CollabUsers(docs[d])

C29_LoginNeedsVerified ==
  /\ \A e \in auth.jwts : auth.accounts[e].isEmailVerified
  /\ \A e \in ReqEmails, pw \in Passwords :
       ( /\ Registered(NormalizeEmail(e))
         /\ ~auth.accounts[NormalizeEmail(e)].isEmailVerified ) =>
       (LoginStatus(e, pw) = 401 /\ ~ENABLED Login(e, pw))

C29_VerifyStep ==
  \A e \in AuthEmails :
    ( /\ Registered(e)
      /\ ~auth.accounts[e].isEmailVerified
      /\ auth'.accounts[e].isEmailVerified ) =>
    \E t \in TokenIds :
      /\ [to |-> e, token |-> t] \in auth.mailed
      /\ auth.accounts[e].emailVerificationToken = Sha256(t)
      /\ auth.accounts[e].emailVerificationExpire > auth.time
      /\ VerifyEmail(t)

C29_VerifiedOnlyByToken == []C29_LoginNeedsVerified /\ [][C29_VerifyStep]_vars

\* C30: every user id a non-deleted document refers to, through a mention,
\* a permission entry's user or grantedBy, a collaborator id or
\* lastModifiedBy, is the id of an existing user.
C30_NoDanglingUserReference ==
  \A d \in DOMAIN docs :
    ~docs[d].isDeleted =>
      /\ MentionUsers(docs[d]) \subseteq users
      /\ PermUsers(docs[d]) \subseteq users
      /\ {docs[d].permissions[i].grantedBy : i \in DOMAIN docs[d].permissions}
           \subseteq users
      /\ CollabUsers(docs[d]) \subseteq users
      /\ docs[d].lastModifiedBy \in users

====
